---- MODULE Spec2Model ----
(***************************************************************************)
(* A model of the ImageProcessor command line tool                         *)
(* (src/exercise/z_final_project/src/main.rs).                             *)
(*                                                                         *)
(* Spec         the run of main(): routing on the subcommand, load_image,  *)
(*              the six steps of process_image, save_image.                *)
(* SpecFractal  the escape loop of fractal(), one pixel at a time.         *)
(* SpecGenerate the channel computation of generate(), one pixel at a time.*)
(* SpecParse    parse_crop on short argument strings.                      *)
(*                                                                         *)
(* The calls into the image crate (DynamicImage::blur, brighten, crop,     *)
(* rotate90/180/270, invert, grayscale) are modelled at the call site:     *)
(* crop and the rotations move pixels as the crate does, and every call    *)
(* appends itself to the image's list of operations, so that two images    *)
(* are equal exactly when they were made by the same calls from the same   *)
(* source pixels.                                                          *)
(***************************************************************************)
EXTENDS Integers, Sequences, FiniteSets, TLC

VARIABLES pc, cli, infile, img, outfile, calls,
          fx, fy, z, green, trail,
          gx, gy, pixel,
          arg, parsed

mainVars == <<cli, infile, img, outfile, calls>>
fractalVars == <<fx, fy, z, green, trail>>
generateVars == <<gx, gy>>
parseVars == <<arg, parsed>>
vars == <<pc, cli, infile, img, outfile, calls, fx, fy, z, green, trail, gx, gy, pixel, arg, parsed>>

\* Option<T>: None is the empty sequence, Some(v) the one-element sequence.
None == <<>>
Some(v) == <<v>>
IsSome(o) == o # <<>>
Unwrap(o) == o[1]

Min(a, b) == IF a <= b THEN a ELSE b

----------------------------------------------------------------------------
(* Bounds of the main flow.                                                *)

\* Input images are MaxDim x MaxDim at most.
MaxDim == 2
\* Crop rectangles have x in {0, 1, MaxCrop}, y in 0..1 and width, height in
\* 1..MaxCrop.
MaxCrop == 2

BlurValues == {None, Some(2)}
BrightenValues == {None, Some(10)}
CropValues ==
    {None} \cup {Some(<<x, y, w, h>>) : x \in {0, 1, MaxCrop}, y \in 0..1,
                                        w \in 1..MaxCrop, h \in 1..MaxCrop}
RotateValues == {None} \cup {Some(v) : v \in {0, 45, 90, 180, 270, 360, 450, -90}}
CommandValues == {"Transform", "Fractal", "Generate"}

\* struct Cli, as Cli::parse() can return it: any combination of the options
\* with any subcommand (the options are arguments of the top-level command).
Cli ==
    [blur : BlurValues, brighten : BrightenValues, crop : CropValues,
     rotate : RotateValues, invert : BOOLEAN, grayscale : BOOLEAN,
     command : CommandValues]

----------------------------------------------------------------------------
(* Images.                                                                 *)

Coords(w, h) == (0..(w - 1)) \X (0..(h - 1))

\* A decoded input file: pixel (x, y) holds the source value y*w + x and no
\* library call has touched the image yet.
SourceImage(w, h) ==
    [width |-> w, height |-> h,
     pixels |-> [p \in Coords(w, h) |-> p[2] * w + p[1]],
     ops |-> <<>>]

InputImages == {SourceImage(w, h) : w \in 1..MaxDim, h \in 1..MaxDim}

\* What image::open(infile) can give: Err (None) or a decoded image.
LoadResults == {None} \cup {Some(i) : i \in InputImages}

\* The image records the library call that produced it.
Touch(image, op, a) == [image EXCEPT !.ops = Append(@, [op |-> op, arg |-> a])]

----------------------------------------------------------------------------
(* The transformations (main.rs 120-148), each a call into the image crate.*)

blur(image, sigma) == Touch(image, "blur", <<sigma>>)

brighten(image, value) == Touch(image, "brighten", <<value>>)

\* crop as it would be without the clamp: the cut-out keeps the size asked
\* for, whatever lies outside the image being blank.
crop_unclamped(image, x, y, width, height) ==
    Touch([width |-> width, height |-> height,
           pixels |-> [p \in Coords(width, height) |->
                          IF <<x + p[1], y + p[2]>> \in DOMAIN image.pixels
                          THEN image.pixels[<<x + p[1], y + p[2]>>] ELSE 0],
           ops |-> image.ops],
          "crop", <<x, y, width, height>>)

\* DynamicImage::crop never fails: the crate clamps the rectangle to the image
\* (x to the width, y to the height, then width and height to what is left)
\* and returns the cut-out, which may be empty.
crop(image, x, y, width, height) ==
    LET cx == Min(x, image.width)
        cy == Min(y, image.height)
        ch == Min(height, image.height - cy)
        cw == Min(width, image.width - cx)
    IN  Touch([width |-> cw, height |-> ch,
               pixels |-> [p \in Coords(cw, ch) |-> image.pixels[<<cx + p[1], cy + p[2]>>]],
               ops |-> image.ops],
              "crop", <<x, y, width, height>>)

\* Clockwise quarter turns: the pixel at (x, y) goes to (height-1-y, x).
rotate90(image) ==
    Touch([width |-> image.height, height |-> image.width,
           pixels |-> [p \in Coords(image.height, image.width) |->
                          image.pixels[<<p[2], image.height - 1 - p[1]>>]],
           ops |-> image.ops],
          "rotate90", <<>>)

rotate180(image) ==
    Touch([width |-> image.width, height |-> image.height,
           pixels |-> [p \in Coords(image.width, image.height) |->
                          image.pixels[<<image.width - 1 - p[1], image.height - 1 - p[2]>>]],
           ops |-> image.ops],
          "rotate180", <<>>)

rotate270(image) ==
    Touch([width |-> image.height, height |-> image.width,
           pixels |-> [p \in Coords(image.height, image.width) |->
                          image.pixels[<<image.width - 1 - p[2], p[1]>>]],
           ops |-> image.ops],
          "rotate270", <<>>)

\* rotate as it would be if the angle were reduced modulo 360.
rotate_mod360(image, value) ==
    CASE value % 360 = 90 -> rotate90(image)
      [] value % 360 = 180 -> rotate180(image)
      [] value % 360 = 270 -> rotate270(image)
      [] OTHER -> image

\* rotate as it would be with the two quarter turns exchanged.
rotate_counterclockwise(image, value) ==
    CASE value = 90 -> rotate270(image)
      [] value = 180 -> rotate180(image)
      [] value = 270 -> rotate90(image)
      [] OTHER -> image

rotate(image, value) ==
    CASE value = 90 -> rotate90(image)
      [] value = 180 -> rotate180(image)
      [] value = 270 -> rotate270(image)
      [] OTHER -> image

invert(image) == Touch(image, "invert", <<>>)

grayscale(image) == Touch(image, "grayscale", <<>>)

----------------------------------------------------------------------------
(* The generators (main.rs 150-194).  f32 values are fixed-point integers  *)
(* in units of 1/Scale; products are rescaled by integer division, so a    *)
(* value is that of the program up to the rounding of the arithmetic.      *)

Scale == 8000
Width == 800
Height == 800
MaxIter == 255

\* The generators visit every pixel of the Width x Height buffer; the model
\* follows the pixels of a grid of step GridStep, and one pixel whose orbit
\* stays bounded.
GridStep == 100
BoundedPixel == <<192, 422>>
SamplePixels ==
    {<<i * GridStep, j * GridStep>> : i \in 0..((Width - 1) \div GridStep),
                                      j \in 0..((Height - 1) \div GridStep)}
        \cup {BoundedPixel}

\* Float to integer by discarding the fractional part (towards zero).
Trunc(v) == IF v >= 0 THEN v \div Scale ELSE -((-v) \div Scale)

\* `v as u8` as it would be if the cast wrapped modulo 256.
F32AsU8Wrapping(v) == Trunc(v) % 256

\* `v as u8` of a float: the fractional part is discarded and the value is
\* saturated to the range of u8.
F32AsU8(v) ==
    LET t == Trunc(v)
    IN  IF t < 0 THEN 0 ELSE IF t > 255 THEN 255 ELSE t

Mul(a, b) == (a * b) \div Scale

\* f32::sin of the angle a, by range reduction and the Taylor series.
Pi == (355 * Scale) \div 113
SinTaylor(t) ==
    LET t2 == Mul(t, t)
        t3 == Mul(t2, t)
        t5 == Mul(t3, t2)
        t7 == Mul(t5, t2)
        u7 == t7 \div 5040
        u9 == Mul(u7, t2) \div 72
    IN  t - (t3 \div 6) + (t5 \div 120) - u7 + u9
Sin(a) ==
    LET r == a % (2 * Pi)
        neg == r > Pi
        h == IF neg THEN r - Pi ELSE r
        q == IF 2 * h > Pi THEN Pi - h ELSE h
    IN  IF neg THEN -SinTaylor(q) ELSE SinTaylor(q)

\* x as f32 * 0.01
Hundredth(x) == (x * Scale) \div 100

\* (0.5 * sin(a) * 255.0) as u8
Channel(a) == F32AsU8((Sin(a) * 255) \div 2)

\* One pixel of generate(): lines 157-161.
GeneratePixel(x, y) ==
    <<Channel(Hundredth(x)), Channel(Hundredth(y)), Channel(Hundredth(x) + Hundredth(y))>>

\* Complex numbers are pairs <<re, im>>.
C0 == <<-((4 * Scale) \div 10), (6 * Scale) \div 10>>
\* z * z + c
Iterate(w) == <<Mul(w[1], w[1]) - Mul(w[2], w[2]) + C0[1], Mul(2 * w[1], w[2]) + C0[2]>>
\* z.norm() <= 2.0
NormLe2(w) == w[1] * w[1] + w[2] * w[2] <= 4 * Scale * Scale
\* The start point of pixel (x, y): cx from y, cy from x (lines 171-182).
Z0(x, y) ==
    <<(y * 3 * Scale) \div Width - (3 * Scale) \div 2,
      (x * 3 * Scale) \div Height - (3 * Scale) \div 2>>

\* The loop condition as it would be with <= for <.
LoopGuardOffByOne(g, w) == g <= MaxIter /\ NormLe2(w)

\* while green < 255 && z.norm() <= 2.0
LoopGuard(g, w) == g < MaxIter /\ NormLe2(w)

\* One test of the loop condition and, when it holds, one pass of the body
\* (lines 185-188), on the loop's state <<green, z>>.
LoopStep(s) == IF LoopGuard(s[1], s[2]) THEN <<s[1] + 1, Iterate(s[2])>> ELSE s

\* n passes of LoopStep, by halving.
RECURSIVE LoopSteps(_, _)
LoopSteps(n, s) ==
    IF n = 0 THEN s
    ELSE IF n = 1 THEN LoopStep(s)
    ELSE LET half == LoopSteps(n \div 2, s)
         IN  IF half[1] = MaxIter THEN half ELSE LoopSteps(n - (n \div 2), half)

\* The value of green when the loop of lines 184-188 ends: the condition
\* fails after MaxIter passes at the latest, and for good once green is MaxIter.
Escape(w) == LoopSteps(MaxIter, <<0, w>>)[1]

\* (0.3 * x as f32) as u8
Tint(x) == F32AsU8((3 * x * Scale) \div 10)

\* One pixel of fractal(): lines 175-190.
FractalPixel(x, y) == <<Tint(x), Escape(Z0(x, y)), Tint(y)>>

PackRgb(c) == (c[1] * 256 + c[2]) * 256 + c[3]

\* The images the generators return, their pixels kept at SamplePixels only.
generate ==
    [width |-> Width, height |-> Height,
     pixels |-> [p \in SamplePixels |-> PackRgb(GeneratePixel(p[1], p[2]))],
     ops |-> <<>>]

fractal ==
    [width |-> Width, height |-> Height,
     pixels |-> [p \in SamplePixels |-> PackRgb(FractalPixel(p[1], p[2]))],
     ops |-> <<>>]

----------------------------------------------------------------------------
(* The run of main().                                                      *)
(*   pc      where the run is: "main", a handler, a step of process_image, *)
(*           "save_image", or an end: "done", "panicked" (an expect that   *)
(*           failed), "exited" (print_usage_and_exit).                     *)
(*   cli     the parsed arguments.                                         *)
(*   infile  what image::open(infile) returned, None before load_image     *)
(*           and when it failed.                                           *)
(*   img     the image in flight, None before there is one.                *)
(*   outfile the image written to OUTFILE, None when none was.             *)
(*   calls   the calls made so far, in order, each with its outcome.       *)

Call(fn, ok) == [fn |-> fn, ok |-> ok]

\* main as it would be if only Generate went to handle_image_generation.
DispatchOnlyGenerate(command) ==
    IF command = "Generate" THEN "handle_image_generation" ELSE "handle_image_processing"

\* main, lines 45-50: Transform goes to handle_image_processing, every other
\* command to handle_image_generation.
Dispatch(command) ==
    IF command = "Transform" THEN "handle_image_processing" ELSE "handle_image_generation"

\* process_image as it would be with brighten and invert exchanged.
ProcessOrderSwapped == <<"blur", "invert", "crop", "rotate", "brighten", "grayscale">>

\* The order of the six steps of process_image, lines 80-102.
ProcessOrder == <<"blur", "brighten", "crop", "rotate", "invert", "grayscale">>

\* Where the run goes after a step of process_image: to the next step, and
\* after the last one back to handle_image_processing, which saves.
AfterStep(step) ==
    LET k == CHOOSE i \in 1..Len(ProcessOrder) : ProcessOrder[i] = step
    IN  IF k < Len(ProcessOrder) THEN ProcessOrder[k + 1] ELSE "save_image"

\* load_image as it would be if a failed open were ignored.
AfterLoadIgnoringError(r) == "blur"

\* load_image, line 113: expect() panics on Err and gives the image on Ok.
AfterLoad(r) == IF IsSome(r) THEN ProcessOrder[1] ELSE "panicked"

\* save_image, line 117: expect() panics on Err.
AfterSave(ok) == IF ok THEN "done" ELSE "panicked"

Main ==
    /\ pc = "main"
    /\ pc' = Dispatch(cli.command)
    /\ UNCHANGED <<cli, infile, img, outfile, calls, fractalVars, generateVars, pixel, parseVars>>

HandleImageProcessing ==
    /\ pc = "handle_image_processing"
    /\ IF cli.command = "Transform"
       THEN \E r \in LoadResults :
                /\ calls' = Append(calls, Call("load_image", IsSome(r)))
                /\ infile' = r
                /\ img' = r
                /\ pc' = AfterLoad(r)
       ELSE /\ calls' = Append(calls, Call("print_usage_and_exit", TRUE))
            /\ pc' = "exited"
            /\ UNCHANGED <<infile, img>>
    /\ UNCHANGED <<cli, outfile, fractalVars, generateVars, pixel, parseVars>>

\* Some option of process_image is given.
AnyTransformFlag(c) ==
    \/ IsSome(c.blur) \/ IsSome(c.brighten) \/ IsSome(c.crop) \/ IsSome(c.rotate)
    \/ c.invert \/ c.grayscale

\* handle_image_generation as it would be if it refused the options of
\* process_image.
GeneratedUnlessFlags(command) ==
    IF AnyTransformFlag(cli) THEN None
    ELSE CASE command = "Fractal" -> Some(<<"fractal", fractal>>)
           [] command = "Generate" -> Some(<<"generate", generate>>)
           [] OTHER -> None

\* handle_image_generation, lines 64-74: the image of the command, None for
\* a command that generates nothing.
Generated(command) ==
    CASE command = "Fractal" -> Some(<<"fractal", fractal>>)
      [] command = "Generate" -> Some(<<"generate", generate>>)
      [] OTHER -> None

HandleImageGeneration ==
    /\ pc = "handle_image_generation"
    /\ LET g == Generated(cli.command)
       IN  IF IsSome(g)
           THEN /\ img' = Some(Unwrap(g)[2])
                /\ calls' = Append(calls, Call(Unwrap(g)[1], TRUE))
                /\ pc' = "save_image"
           ELSE /\ calls' = Append(calls, Call("print_usage_and_exit", TRUE))
                /\ pc' = "exited"
                /\ img' = img
    /\ UNCHANGED <<cli, infile, outfile, fractalVars, generateVars, pixel, parseVars>>

\* A step of process_image: when the option is present, img becomes result.
Step(step, present, result) ==
    /\ pc = step
    /\ IF present
       THEN /\ img' = Some(result)
            /\ calls' = Append(calls, Call(step, TRUE))
       ELSE UNCHANGED <<img, calls>>
    /\ pc' = AfterStep(step)
    /\ UNCHANGED <<cli, infile, outfile, fractalVars, generateVars, pixel, parseVars>>

ProcessBlur ==
    Step("blur", IsSome(cli.blur), blur(Unwrap(img), Unwrap(cli.blur)))

ProcessBrighten ==
    Step("brighten", IsSome(cli.brighten), brighten(Unwrap(img), Unwrap(cli.brighten)))

ProcessCrop ==
    Step("crop", IsSome(cli.crop),
         LET r == Unwrap(cli.crop) IN crop(Unwrap(img), r[1], r[2], r[3], r[4]))

ProcessRotate ==
    Step("rotate", IsSome(cli.rotate), rotate(Unwrap(img), Unwrap(cli.rotate)))

ProcessInvert ==
    Step("invert", cli.invert, invert(Unwrap(img)))

ProcessGrayscale ==
    Step("grayscale", cli.grayscale, grayscale(Unwrap(img)))

SaveImage ==
    /\ pc = "save_image"
    /\ \E ok \in BOOLEAN :
          /\ calls' = Append(calls, Call("save_image", ok))
          /\ outfile' = IF ok THEN img ELSE outfile
          /\ pc' = AfterSave(ok)
    /\ UNCHANGED <<cli, infile, img, fractalVars, generateVars, pixel, parseVars>>

\* The variables of the other specifications, at rest.
MainIdle ==
    /\ cli = None /\ infile = None /\ img = None /\ outfile = None /\ calls = <<>>
FractalIdle ==
    /\ fx = 0 /\ fy = 0 /\ z = <<0, 0>> /\ green = 0 /\ trail = <<>>
GenerateIdle ==
    /\ gx = 0 /\ gy = 0 /\ pixel = <<0, 0, 0>>
ParseIdle ==
    /\ arg = <<>> /\ parsed = None

Init ==
    /\ pc = "main"
    /\ cli \in Cli
    /\ infile = None
    /\ img = None
    /\ outfile = None
    /\ calls = <<>>
    /\ FractalIdle /\ GenerateIdle /\ ParseIdle

Next ==
    \/ Main
    \/ HandleImageProcessing
    \/ HandleImageGeneration
    \/ ProcessBlur
    \/ ProcessBrighten
    \/ ProcessCrop
    \/ ProcessRotate
    \/ ProcessInvert
    \/ ProcessGrayscale
    \/ SaveImage

Spec == Init /\ [][Next]_vars

----------------------------------------------------------------------------
(* fractal(), lines 174-191, for one pixel (fx, fy) of the buffer.         *)
(*   z, green  the variables of the loop.                                  *)
(*   trail     the values z had when the loop body was entered, in order.  *)
(*   pixel     the pixel stored.                                           *)

InitFractal ==
    /\ pc = "fractal_pixel"
    /\ \E p \in SamplePixels : fx = p[1] /\ fy = p[2]
    /\ z = <<0, 0>> /\ green = 0 /\ trail = <<>>
    /\ MainIdle /\ GenerateIdle /\ ParseIdle

\* Lines 175-184: the start point, green = 0.
FractalEnter ==
    /\ pc = "fractal_pixel"
    /\ z' = Z0(fx, fy)
    /\ green' = 0
    /\ pc' = "fractal_loop"
    /\ UNCHANGED <<fx, fy, trail, pixel, mainVars, generateVars, parseVars>>

\* Lines 185-188: one pass of the loop body.
FractalIterate ==
    /\ pc = "fractal_loop"
    /\ LoopGuard(green, z)
    /\ z' = Iterate(z)
    /\ green' = green + 1
    /\ trail' = Append(trail, z)
    /\ UNCHANGED <<pc, fx, fy, pixel, mainVars, generateVars, parseVars>>

\* Line 190: the loop is over, the pixel is stored.
FractalStore ==
    /\ pc = "fractal_loop"
    /\ ~LoopGuard(green, z)
    /\ pixel' = <<Tint(fx), green, Tint(fy)>>
    /\ pc' = "fractal_stored"
    /\ UNCHANGED <<fx, fy, z, green, trail, gx, gy, mainVars, parseVars>>

NextFractal == FractalEnter \/ FractalIterate \/ FractalStore

SpecFractal == InitFractal /\ [][NextFractal]_vars

----------------------------------------------------------------------------
(* generate(), lines 156-162, for one pixel (gx, gy) of the buffer.        *)

InitGenerate ==
    /\ pc = "generate_pixel"
    /\ \E p \in SamplePixels : gx = p[1] /\ gy = p[2]
    /\ pixel = <<0, 0, 0>>
    /\ MainIdle /\ FractalIdle /\ ParseIdle

GenerateStore ==
    /\ pc = "generate_pixel"
    /\ pixel' = GeneratePixel(gx, gy)
    /\ pc' = "generate_stored"
    /\ UNCHANGED <<gx, gy, mainVars, fractalVars, parseVars>>

NextGenerate == GenerateStore

SpecGenerate == InitGenerate /\ [][NextGenerate]_vars

----------------------------------------------------------------------------
(* parse_crop, lines 196-206.  A string is a sequence of one-character     *)
(* strings.                                                                *)

\* Argument strings have at most MaxLen characters, taken from Alphabet.
MaxLen == 7
Alphabet == {"1", ",", "x", "+"}

RECURSIVE StringsOf(_)
StringsOf(n) ==
    IF n = 0 THEN {<<>>}
    ELSE LET shorter == StringsOf(n - 1)
         IN  shorter \cup {Append(t, c) : t \in {u \in shorter : Len(u) = n - 1}, c \in Alphabet}

Digits == {"0", "1", "2", "3", "4", "5", "6", "7", "8", "9"}
DigitValue(c) == CHOOSE d \in 0..9 : <<"0", "1", "2", "3", "4", "5", "6", "7", "8", "9">>[d + 1] = c

\* s.split(','): the fields between the commas, one more than there are
\* commas, empty fields included.
RECURSIVE Split(_)
Split(t) ==
    IF \A i \in 1..Len(t) : t[i] # ","
    THEN <<t>>
    ELSE LET k == CHOOSE i \in 1..Len(t) : t[i] = "," /\ \A j \in 1..(i - 1) : t[j] # ","
         IN  <<SubSeq(t, 1, k - 1)>> \o Split(SubSeq(t, k + 1, Len(t)))

RECURSIVE Decimal(_)
Decimal(t) == IF t = <<>> THEN 0 ELSE 10 * Decimal(SubSeq(t, 1, Len(t) - 1)) + DigitValue(t[Len(t)])

\* str::parse::<u32>: an optional "+" and then one digit at least, digits
\* only.  (A value above u32::MAX is an error too; it takes ten digits, more
\* than MaxLen allows.)
ParseU32(t) ==
    LET body == IF t # <<>> /\ t[1] = "+" /\ Len(t) > 1 THEN Tail(t) ELSE t
    IN  IF body # <<>> /\ \A i \in 1..Len(body) : body[i] \in Digits
        THEN Some(Decimal(body))
        ELSE None

Ok(v) == [ok |-> TRUE, value |-> v, message |-> <<>>]
\* format!("Invalid {what} value: {text}")
Err(what, text) == [ok |-> FALSE, value |-> <<>>, message |-> <<what, text>>]

\* parse_crop as it would be if the fields were parsed before they are counted.
parse_crop_fields_first(t) ==
    LET parts == Split(t)
        name == <<"x", "y", "width", "height">>
        bad == {i \in 1..Min(Len(parts), 4) : ~IsSome(ParseU32(parts[i]))}
    IN  IF bad # {}
        THEN LET k == CHOOSE i \in bad : \A j \in bad : i <= j
             IN  Err(name[k], parts[k])
        ELSE IF Len(parts) # 4 THEN Err("crop", t)
        ELSE Ok([i \in 1..4 |-> Unwrap(ParseU32(parts[i]))])

parse_crop(t) ==
    LET parts == Split(t)
    IN  IF Len(parts) # 4 THEN Err("crop", t)
        ELSE IF ~IsSome(ParseU32(parts[1])) THEN Err("x", parts[1])
        ELSE IF ~IsSome(ParseU32(parts[2])) THEN Err("y", parts[2])
        ELSE IF ~IsSome(ParseU32(parts[3])) THEN Err("width", parts[3])
        ELSE IF ~IsSome(ParseU32(parts[4])) THEN Err("height", parts[4])
        ELSE Ok(<<Unwrap(ParseU32(parts[1])), Unwrap(ParseU32(parts[2])),
                  Unwrap(ParseU32(parts[3])), Unwrap(ParseU32(parts[4]))>>)

InitParse ==
    /\ pc = "parse_crop"
    /\ arg \in StringsOf(MaxLen)
    /\ parsed = None
    /\ MainIdle /\ FractalIdle /\ GenerateIdle

ParseCrop ==
    /\ pc = "parse_crop"
    /\ parsed' = Some(parse_crop(arg))
    /\ pc' = "parsed"
    /\ UNCHANGED <<arg, mainVars, fractalVars, generateVars, pixel>>

NextParse == ParseCrop

SpecParse == InitParse /\ [][NextParse]_vars

----------------------------------------------------------------------------
(* Properties of the run of main().                                        *)

Names(log) == [i \in 1..Len(log) |-> log[i].fn]

Transformations == {"blur", "brighten", "crop", "rotate", "invert", "grayscale"}

\* The transformations called so far, in the order of the calls.
Applied == Names(SelectSeq(calls, LAMBDA e : e.fn \in Transformations))

\* Whether the request asks for a transformation.
Asked(c, step) ==
    CASE step = "blur" -> IsSome(c.blur)
      [] step = "brighten" -> IsSome(c.brighten)
      [] step = "crop" -> IsSome(c.crop)
      [] step = "rotate" -> IsSome(c.rotate)
      [] step = "invert" -> c.invert
      [] step = "grayscale" -> c.grayscale

\* The transformations the request asks for, in the order blur, brighten,
\* crop, rotate, invert, grayscale.
AskedInOrder(c) ==
    SelectSeq(<<"blur", "brighten", "crop", "rotate", "invert", "grayscale">>,
              LAMBDA step : Asked(c, step))

IsPrefix(a, b) == Len(a) <= Len(b) /\ a = SubSeq(b, 1, Len(a))

Called(fn) == \E i \in 1..Len(calls) : calls[i].fn = fn

\* process_image has returned.
Processed == cli.command = "Transform" /\ (pc = "save_image" \/ Called("save_image"))

\* C1: process_image runs each transformation at most once, in the order
\* blur, brighten, crop, rotate, invert, grayscale, and exactly those the
\* request asks for; a request of brighten +10 and invert alone gives the
\* inverted brightened input.
C1_FixedOrder ==
    /\ IsPrefix(Applied, AskedInOrder(cli))
    /\ Processed => Applied = AskedInOrder(cli)
    /\ (Processed /\ AskedInOrder(cli) = <<"brighten", "invert">>)
          => img = Some(invert(brighten(Unwrap(infile), Unwrap(cli.brighten))))

C1_Witness ==
    /\ pc = "done"
    /\ Applied = <<"blur", "brighten", "crop", "rotate", "invert", "grayscale">>

\* C2: in transform mode save_image is called only after load_image succeeded
\* and every requested transformation ran; a call that fails is the last call
\* of the run, no call is made twice, and nothing is written unless save_image
\* succeeded.
C2_SaveAfterSuccess ==
    /\ \A i \in 1..Len(calls) : ~calls[i].ok => (i = Len(calls) /\ pc = "panicked")
    /\ pc = "panicked" => (calls # <<>> /\ ~calls[Len(calls)].ok)
    /\ \A i, j \in 1..Len(calls) : calls[i].fn = calls[j].fn => i = j
    /\ (cli.command = "Transform" /\ Called("save_image"))
          => /\ calls[1] = Call("load_image", TRUE)
             /\ calls[Len(calls)].fn = "save_image"
             /\ Applied = AskedInOrder(cli)
             /\ Len(calls) = Len(Applied) + 2
    /\ IsSome(outfile) => calls[Len(calls)] = Call("save_image", TRUE)

C2_Witness ==
    /\ pc = "panicked"
    /\ calls = <<Call("load_image", FALSE)>>
    /\ AnyTransformFlag(cli)
    /\ outfile = None

\* The crop rectangle of the request exceeds the loaded image.
CropOutOfBounds ==
    /\ cli.command = "Transform" /\ IsSome(cli.crop) /\ IsSome(infile)
    /\ LET r == Unwrap(cli.crop)
       IN  \/ r[1] + r[3] > Unwrap(infile).width
           \/ r[2] + r[4] > Unwrap(infile).height

\* C3 as stated: with a crop rectangle that exceeds the image, the crop step
\* is not run to a result and no output file is produced.
C3_CropFails == CropOutOfBounds => (~Called("crop") /\ outfile = None)

\* C3 as amended: with a crop rectangle that exceeds the image, the crop step
\* does not fail; it returns the part of the rectangle that lies in the image
\* (x and y clamped to the image's width and height, width and height to what
\* is left of them), the remaining steps run and the result is saved.
C3_CropClamps ==
    CropOutOfBounds =>
        /\ \A i \in 1..Len(calls) : calls[i].fn = "crop" => calls[i].ok
        /\ pc = "rotate" =>
              LET r == Unwrap(cli.crop)
                  w == Unwrap(infile).width
                  h == Unwrap(infile).height
                  cut == Unwrap(img)
              IN  /\ Called("crop")
                  /\ cut.width = Min(r[3], w - Min(r[1], w))
                  /\ cut.height = Min(r[4], h - Min(r[2], h))
                  /\ cut.width <= w /\ cut.height <= h
                  /\ \A p \in DOMAIN cut.pixels :
                        cut.pixels[p] = Unwrap(infile).pixels[<<r[1] + p[1], r[2] + p[2]>>]
        /\ pc = "done" => (Called("crop") /\ IsSome(outfile) /\ outfile = img)

C3_Witness ==
    /\ CropOutOfBounds
    /\ pc = "done"
    /\ IsSome(outfile)
    /\ Unwrap(outfile).width = 1
    /\ Unwrap(infile).width = 2
    /\ Unwrap(cli.crop)[1] = 1
    /\ Unwrap(cli.crop)[3] = 2

\* C4: a rotation value other than 90, 180 and 270 is accepted and the rotate
\* step returns its input unchanged, pixels, width and height.
C4_RotateNoOp ==
    [][(pc = "rotate" /\ IsSome(cli.rotate) /\ Unwrap(cli.rotate) \notin {90, 180, 270})
          => (img' = img /\ pc' = "invert" /\ calls' = Append(calls, Call("rotate", TRUE)))]_vars

C4_Witness ==
    /\ pc = "invert"
    /\ cli.rotate = Some(45)
    /\ Called("rotate")
    /\ Unwrap(img).width = 2 /\ Unwrap(img).height = 1
    /\ Unwrap(img).pixels = Unwrap(infile).pixels

SamePixels(a, b) == a.width = b.width /\ a.height = b.height /\ a.pixels = b.pixels

\* C5 as stated: a rotation value turns the image as the angle it is
\* congruent to modulo 360 does (450 as 90, -90 as 270).
C5_RotateModulo ==
    [][(pc = "rotate" /\ IsSome(cli.rotate))
          => SamePixels(Unwrap(img'), rotate(Unwrap(img), Unwrap(cli.rotate) % 360))]_vars

\* C5 as amended: a rotation value has an effect when it is exactly 90, 180
\* or 270, the image being turned by that angle; every other value, those
\* congruent to them modulo 360 included (450, -90), has none.
C5_RotateExact ==
    [][(pc = "rotate" /\ IsSome(cli.rotate))
          => LET v == Unwrap(cli.rotate)
                 before == Unwrap(img)
                 after == Unwrap(img')
             IN  /\ v = 90 => after = rotate90(before)
                 /\ v = 180 => after = rotate180(before)
                 /\ v = 270 => after = rotate270(before)
                 /\ v \in {450, -90, 360, 0} => after = before
                 /\ ~SamePixels(after, before) => v \in {90, 180, 270}]_vars

C5_Witness ==
    /\ pc = "invert"
    /\ cli.rotate = Some(450)
    /\ ~IsSome(cli.crop)
    /\ Unwrap(infile).width = 2 /\ Unwrap(infile).height = 1
    /\ SamePixels(Unwrap(img), Unwrap(infile))
    /\ ~SamePixels(Unwrap(img), rotate90(Unwrap(infile)))

\* An option of process_image is given together with fractal or generate.
FlagsWithGeneration == cli.command \in {"Fractal", "Generate"} /\ AnyTransformFlag(cli)

\* C6 as stated: an option of process_image given with fractal or generate
\* makes the run print usage and exit, nothing being generated or saved.
C6_UsageOnFlags ==
    FlagsWithGeneration =>
        /\ ~Called("fractal") /\ ~Called("generate") /\ ~Called("save_image")
        /\ pc # "done" /\ outfile = None

\* C6 as amended: an option of process_image given with fractal or generate
\* is ignored; the run generates the image of the command and saves it
\* untransformed, and does not print usage.
C6_FlagsIgnored ==
    FlagsWithGeneration =>
        /\ pc # "exited" /\ ~Called("print_usage_and_exit")
        /\ Applied = <<>>
        /\ pc \in {"save_image", "done"} =>
              img = Some(IF cli.command = "Fractal" THEN fractal ELSE generate)
        /\ pc = "done" => outfile = img

C6_Witness ==
    /\ FlagsWithGeneration
    /\ cli.command = "Fractal"
    /\ cli.invert
    /\ pc = "done"
    /\ outfile = Some(fractal)

\* C10: main sends Transform only to handle_image_processing and Fractal and
\* Generate only to handle_image_generation; print_usage_and_exit is never
\* called; a finished run is exactly one of load, process_image, save or
\* fractal, save or generate, save; the generation flows load nothing and
\* transform nothing.
C10_Routing ==
    /\ pc = "handle_image_processing" => cli.command = "Transform"
    /\ pc = "handle_image_generation" => cli.command \in {"Fractal", "Generate"}
    /\ pc # "exited" /\ ~Called("print_usage_and_exit")
    /\ cli.command = "Transform" => (~Called("fractal") /\ ~Called("generate"))
    /\ cli.command # "Transform" => (~Called("load_image") /\ Applied = <<>> /\ infile = None)
    /\ pc = "done" =>
          Names(calls) =
             CASE cli.command = "Transform" -> <<"load_image">> \o AskedInOrder(cli) \o <<"save_image">>
               [] cli.command = "Fractal" -> <<"fractal", "save_image">>
               [] cli.command = "Generate" -> <<"generate", "save_image">>

C10_Witness ==
    /\ pc = "done"
    /\ cli.command = "Generate"
    /\ Names(calls) = <<"generate", "save_image">>
    /\ outfile = Some(generate)

----------------------------------------------------------------------------
(* Properties of parse_crop, fractal() and generate().                     *)

FieldName == <<"x", "y", "width", "height">>

\* The first field of fields that does not parse as a u32, 0 when all do.
FirstMalformed(fields) ==
    LET bad == {i \in 1..Len(fields) : ~IsSome(ParseU32(fields[i]))}
    IN  IF bad = {} THEN 0 ELSE CHOOSE i \in bad : \A j \in bad : i <= j

\* parse_crop returns Ok with the four numbers exactly when the string is four
\* fields that each parse as a u32.
ParseOkExactly(fields, r) ==
    /\ r.ok <=> (Len(fields) = 4 /\ FirstMalformed(fields) = 0)
    /\ r.ok => r.value = [i \in 1..4 |-> Unwrap(ParseU32(fields[i]))]

\* C7 as stated: Ok exactly for four fields that parse as u32; every other
\* string gives an error that names the first malformed field, in the order
\* x, y, width, height.
C7_NamesMalformedField ==
    pc = "parsed" =>
        LET fields == Split(arg)
            r == Unwrap(parsed)
            k == FirstMalformed(fields)
        IN  /\ ParseOkExactly(fields, r)
            /\ ~r.ok => (k \in 1..4 /\ r.message = <<FieldName[k], fields[k]>>)

\* C7 as amended: Ok exactly for four fields that parse as u32; a string that
\* does not split into four fields gives an error that names the whole crop
\* value and no field; a string of four fields gives an error that names the
\* first malformed field, in the order x, y, width, height.
C7_ParseCrop ==
    pc = "parsed" =>
        LET fields == Split(arg)
            r == Unwrap(parsed)
            k == FirstMalformed(fields)
        IN  /\ ParseOkExactly(fields, r)
            /\ (~r.ok /\ Len(fields) # 4) => r.message = <<"crop", arg>>
            /\ (~r.ok /\ Len(fields) = 4) => r.message = <<FieldName[k], fields[k]>>

C7_Witness ==
    /\ pc = "parsed"
    /\ arg = <<"1", ",", "x", ",", "+", ",", "1">>
    /\ parsed = Some(Err("y", <<"x">>))

\* C8: the escape loop ends after 255 passes at most; green is the number of
\* passes made, every point of the orbit before z_green lies within |z| <= 2,
\* and when the loop ends with green < 255 the point z_green lies outside; so
\* green is the first k with |z_k| > 2, or 255 when there is none below 255.
C8_EscapeCount ==
    /\ green \in 0..255
    /\ pc \in {"fractal_loop", "fractal_stored"} =>
          /\ green = Len(trail)
          /\ \A k \in 1..Len(trail) :
                /\ trail[k] = IF k = 1 THEN Z0(fx, fy) ELSE Iterate(trail[k - 1])
                /\ NormLe2(trail[k])
          /\ z = IF trail = <<>> THEN Z0(fx, fy) ELSE Iterate(trail[Len(trail)])
    /\ pc = "fractal_stored" =>
          /\ pixel[2] = green
          /\ green < 255 => ~NormLe2(z)

C8_Witness ==
    /\ pc = "fractal_stored"
    /\ pixel[2] = 255
    /\ Len(trail) = 255
    /\ NormLe2(z)

\* The three values 0.5 * sin(arg) * 255.0 of the pixel (gx, gy).
ChannelValues ==
    <<(Sin(Hundredth(gx)) * 255) \div 2,
      (Sin(Hundredth(gy)) * 255) \div 2,
      (Sin(Hundredth(gx) + Hundredth(gy)) * 255) \div 2>>

\* C9 as stated: each channel is its value with the fractional part discarded
\* and the high bits wrapped (modulo 256), negative values not becoming 0.
C9_Wraps ==
    pc = "generate_stored" =>
        \A c \in 1..3 : pixel[c] = Trunc(ChannelValues[c]) % 256

\* C9 as amended: each channel is its value, which lies in [-127.5, 127.5],
\* with the fractional part discarded and the result saturated to 0..255, not
\* rounded and not wrapped; a negative value becomes 0.
C9_Saturates ==
    pc = "generate_stored" =>
        \A c \in 1..3 :
            LET v == ChannelValues[c]
            IN  /\ 2 * v >= -255 * Scale /\ 2 * v <= 255 * Scale
                /\ v < 0 => pixel[c] = 0
                /\ v >= 0 => (pixel[c] * Scale <= v /\ v < (pixel[c] + 1) * Scale)

C9_Witness ==
    /\ pc = "generate_stored"
    /\ ChannelValues[1] < -Scale
    /\ pixel[1] = 0
    /\ ChannelValues[2] > 0
    /\ ChannelValues[2] % Scale > Scale \div 2
    /\ pixel[2] = ChannelValues[2] \div Scale

====
